---------------------------- MODULE Spec2Model ----------------------------
(***************************************************************************)
(* A model of gomm, the MatrixMarket parser/encoder of src/gomm.go (the    *)
(* second, current version of the package: lines 394-994).                 *)
(*                                                                         *)
(* Text.  A line is a sequence of atoms.  An atom is a separator byte      *)
(* (space, tab) or a maximal run of other bytes: a word ("matrix"), a      *)
(* decimal integer numeral or a decimal numeral with a fraction.  The      *)
(* string functions of Go (TrimSpace, Split, Fields, ToLower, EqualFold,   *)
(* Atoi, ParseFloat, the %d and %v verbs) are modelled on atoms.           *)
(*                                                                         *)
(* Numbers.  A float64 value is represented by the integer number of       *)
(* halves it holds: 3 stands for 1.5, 2 for 1.0, -3 for -1.5.  All values  *)
(* of the model are finite and exactly representable, so float addition    *)
(* and negation are exact integer operations on the halves.                *)
(*                                                                         *)
(* Library.  github.com/james-bowman/sparse and gonum's mat.Dense are      *)
(* called by gomm.go and are not part of the repository.  COO, CSR and     *)
(* Dense below follow their documented behaviour: COO.Set appends a        *)
(* triplet (duplicates are kept and added up), COO.ToCSR groups the        *)
(* triplets by row in insertion order and adds duplicates into their       *)
(* first occurrence, CSR.DoNonZero visits the stored entries row by row in *)
(* storage order, Dense is row-major.                                      *)
(***************************************************************************)
EXTENDS Integers, Sequences, FiniteSets, TLC

(***************************************************************************)
(* Bounds of the model.                                                    *)
(***************************************************************************)
\* largest matrix dimension written on a dimension line
MaxDim == 2
\* largest number of entry lines read by the coordinate body parser
MaxEntries == 2

(***************************************************************************)
(* Atoms                                                                   *)
(***************************************************************************)
W(s) == [k |-> "w", s |-> s, n |-> 0]
\* a decimal integer numeral, such as 12 or -3
IntTok(i) == [k |-> "i", s |-> "", n |-> i]
\* a decimal numeral with a fraction; h counts halves: FltTok(3) is 1.5,
\* FltTok(2) is 1.0
FltTok(h) == [k |-> "f", s |-> "", n |-> h]
SP == [k |-> "sp", s |-> " ", n |-> 0]
TAB == [k |-> "sp", s |-> "\t", n |-> 0]

\* the newline byte, kept in the comment
NL == [k |-> "nl", s |-> "\n", n |-> 0]

IsSpace(a) == a.k = "sp"

\* a run of more than bufio.MaxScanTokenSize bytes that holds no newline
LONG == [k |-> "long", s |-> "", n |-> 0]

\* bufio.Scanner cannot return line l: Scan returns false and Err returns
\* bufio.ErrTooLong
TooLong(l) == \E x \in 1..Len(l) : l[x].k = "long"

\* the words of the model that start with the byte '%'
PercentWords == {"%Hello", "%World!", "%%MatrixMarket", "%%matrixmarket", "%MatrixMarket"}

(***************************************************************************)
(* Go's strings package on lines of atoms                                  *)
(***************************************************************************)
RECURSIVE TrimLeft(_)
TrimLeft(l) ==
  IF l # <<>> /\ IsSpace(Head(l)) THEN TrimLeft(Tail(l)) ELSE l

RECURSIVE TrimRight(_)
TrimRight(l) ==
  IF l # <<>> /\ IsSpace(l[Len(l)]) THEN TrimRight(SubSeq(l, 1, Len(l) - 1)) ELSE l

\* strings.TrimSpace
TrimSpace(l) == TrimRight(TrimLeft(l))

\* strings.Split(l, " "): cut at every single space; a tab is no separator,
\* two adjacent spaces enclose an empty token.  A token is a sequence of atoms.
RECURSIVE SplitAcc(_, _, _)
SplitAcc(l, cur, acc) ==
  IF l = <<>> THEN Append(acc, cur)
  ELSE IF Head(l) = SP THEN SplitAcc(Tail(l), <<>>, Append(acc, cur))
  ELSE SplitAcc(Tail(l), Append(cur, Head(l)), acc)

Split(l) == SplitAcc(l, <<>>, <<>>)

\* strings.Fields: cut at every run of white space; no empty token.
RECURSIVE FieldsAcc(_, _, _)
FieldsAcc(l, cur, acc) ==
  IF l = <<>> THEN (IF cur = <<>> THEN acc ELSE Append(acc, cur))
  ELSE IF IsSpace(Head(l))
       THEN FieldsAcc(Tail(l), <<>>, IF cur = <<>> THEN acc ELSE Append(acc, cur))
  ELSE FieldsAcc(Tail(l), Append(cur, Head(l)), acc)

Fields(l) == FieldsAcc(l, <<>>, <<>>)

\* strings.ToLower on the words of the model
LowerWord(s) ==
  CASE s = "%%MatrixMarket" -> "%%matrixmarket"
    [] s = "MATRIX" -> "matrix"
    [] s = "Array" -> "array"
    [] s = "COORDINATE" -> "coordinate"
    [] s = "Real" -> "real"
    [] s = "Skew-Symmetric" -> "skew-symmetric"
    [] OTHER -> s

ToLower(tok) == [x \in 1..Len(tok) |->
                   IF tok[x].k = "w" THEN W(LowerWord(tok[x].s)) ELSE tok[x]]

\* strings.EqualFold(tok, s) for a word s
EqualFold(tok, s) == ToLower(tok) = <<W(LowerWord(s))>>

AtoiOk_Float(tok) == Len(tok) = 1 /\ tok[1].k \in {"i", "f"}

\* strconv.Atoi: the token is one integer numeral
AtoiOk(tok) == Len(tok) = 1 /\ tok[1].k = "i"
AtoiVal(tok) == tok[1].n

\* strconv.ParseFloat(tok, 64): an integer numeral or a numeral with a fraction;
\* the value in halves
ParseFloatOk(tok) == Len(tok) = 1 /\ tok[1].k \in {"i", "f"}
ParseFloatVal(tok) == IF tok[1].k = "i" THEN 2 * tok[1].n ELSE tok[1].n

\* fmt's %v of a float64: the shortest decimal text that parses back to the
\* value: no fraction for a whole number ("12"), otherwise the fraction ("10.5")
FormatV(h) == IF h % 2 = 0 THEN IntTok(h \div 2) ELSE FltTok(h)

(***************************************************************************)
(* Constants of the package                                                *)
(***************************************************************************)
FormatArray == "array"
FormatCoordinate == "coordinate"
TypeReal == "real"
TypeInteger == "complex"
TypeComplex == "integer"
TypePattern == "pattern"
General == "general"
Symmetric == "symmetric"
SkewSymmetric == "skew-symmetric"
Hermitian == "hermitian"


(***************************************************************************)
(* State                                                                   *)
(***************************************************************************)
VARIABLES
  pc,        \* position of the run: "header", "comment", "dims", "body" are the
             \* stages of Parse still to run; "done": Parse returned (mat, nil);
             \* "failed": Parse returned (nil, err); "panic": a run-time panic;
             \* "saved": SaveToMatrixMarket wrote `out`; "reparsed": `out` was parsed
  rd,        \* the stream behind the buffered lines: "open" (nothing is known
             \* of it) or "eof" (it is exhausted)
  buf,       \* the lines that follow the first line in the buffer of the
             \* bufio.Reader, filled by the first read: ls, the lines without
             \* their newlines, and cut, whether the last of them has none
             \* because the stream ends there
  pos,       \* the number of lines of buf that were read
  line,      \* the bytes returned by the last line read (without the newline)
  readErr,   \* the error of the last line read: "nil" or "EOF"
  err,       \* the error returned by the last stage, "nil" if none
  Format, Type, Symmetry, comment, n, m, lines, nnz, mat,   \* fields of Matrix
  entries,   \* history: the (i, j, v) triplets that the running or finished
             \* ParseCoordinate has split, one per line scanned
  coo,       \* the local coo of ParseCoordinate: the triplets set so far
  values,    \* the local values[0:cnt] of ParseArrayFormat
  out,       \* the lines written by SaveToMatrixMarket
  mat2       \* the result of parsing `out` again

vars == <<pc, rd, buf, pos, line, readErr, err, Format, Type, Symmetry, comment, n, m,
          lines, nnz, mat, entries, coo, values, out, mat2>>

bufVars == <<buf, pos>>
hdrVars == <<Format, Type, Symmetry>>
dimVars == <<n, m, lines>>
bodyVars == <<entries, coo, values, mat>>
saveVars == <<out, mat2>>

NoMat == [kind |-> "nil"]

\* nothing follows in the buffer
NoLines == [ls |-> <<>>, cut |-> FALSE]

\* &Matrix{}: every field has its zero value
Init ==
  /\ pc = "header"
  /\ rd = "open"
  /\ buf = NoLines /\ pos = 0
  /\ line = <<>>
  /\ readErr = "nil"
  /\ err = "nil"
  /\ Format = "" /\ Type = "" /\ Symmetry = ""
  /\ comment = <<>>
  /\ n = 0 /\ m = 0 /\ lines = 0 /\ nnz = 0
  /\ mat = NoMat
  /\ entries = <<>> /\ coo = <<>> /\ values = <<>>
  /\ out = <<>> /\ mat2 = NoMat

(***************************************************************************)
(* The reader.  buf.ReadBytes('\n') and buf.ReadString('\n') return the    *)
(* bytes up to and including the next newline, or the rest of the stream   *)
(* together with io.EOF when the stream ends first.  A read is a record:   *)
(* b, the bytes without the newline, and eof, whether io.EOF was returned. *)
(***************************************************************************)
IsCommentStart_PercentOnly(l) == l # <<>> /\ l[1].k = "w" /\ l[1].s \in PercentWords

\* buf.Peek(1) and the switch of ParseComment: the first byte of a line that
\* is read next is '%', a newline (the line is empty), a space or a tab
IsCommentStart(l) ==
  \/ l = <<>>
  \/ IsSpace(l[1])
  \/ l[1].k = "w" /\ l[1].s \in PercentWords

\* line x of the buffer as a read: the last line ends with io.EOF when cut
Buffered(x) == [b |-> buf.ls[x], eof |-> x = Len(buf.ls) /\ buf.cut]

\* the reads the next ReadBytes can return: the next line of the buffer if
\* one is left, nothing at the end of the stream, else a line of ls
Reads(ls) ==
  CASE pos < Len(buf.ls) -> {Buffered(pos + 1)}
    [] rd = "eof" -> {[b |-> <<>>, eof |-> TRUE]}
    [] OTHER -> {[b |-> l, eof |-> e] : l \in ls, e \in BOOLEAN}
                \cup {[b |-> <<>>, eof |-> TRUE]}

\* a read moves the cursor over the buffered line it returns
Advance == IF pos < Len(buf.ls) THEN pos + 1 ELSE pos

\* the stream behind the buffer after the read r
AfterRead(r) ==
  IF pos < Len(buf.ls) THEN rd ELSE IF r.eof THEN "eof" ELSE "open"

\* the lines a Scanner can return next: an empty last line without a newline
\* is no line
Scans(ls) == {r \in Reads(ls) : ~(r.b = <<>> /\ r.eof)}

\* the sequences of at most k lines of ls
SeqsUpTo(ls, k) == UNION {[1..x -> ls] : x \in 0..k}

\* what the buffer can hold behind the first line: lines of ls, the last of
\* them without a newline or not; a last line without a newline is not empty
Streams(ls, k) ==
  {st \in [ls : SeqsUpTo(ls, k), cut : BOOLEAN] :
     st.cut => st.ls # <<>> /\ st.ls[Len(st.ls)] # <<>>}

\* The stream goes on behind the buffer st only if the buffer holds a line
\* that ends the comment, so that ParseComment never looks behind it.
MayGoOn(st) == ~st.cut /\ \E x \in 1..Len(st.ls) : ~IsCommentStart(st.ls[x])

(***************************************************************************)
(* ParseHeader                                                             *)
(***************************************************************************)
\* the switch on the format token
HeaderFormat(tok) ==
  CASE ToLower(tok) = <<W(FormatArray)>> -> FormatArray
    [] ToLower(tok) = <<W(FormatCoordinate)>> -> FormatCoordinate
    [] OTHER -> "default"

\* the switch on the element type token; the cases are tried in source order
HeaderType(tok) ==
  CASE ToLower(tok) = <<W(TypeReal)>> -> TypeReal
    [] ToLower(tok) = <<W(TypeComplex)>> -> TypeComplex
    [] ToLower(tok) = <<W(TypeInteger)>> -> TypeInteger
    [] ToLower(tok) = <<W(TypePattern)>> -> TypePattern
    [] OTHER -> "default"

\* the switch on the symmetry token
HeaderSymmetry(tok) ==
  CASE ToLower(tok) = <<W(General)>> -> General
    [] ToLower(tok) = <<W(Symmetric)>> -> Symmetric
    [] ToLower(tok) = <<W(SkewSymmetric)>> -> SkewSymmetric
    [] ToLower(tok) = <<W(Hermitian)>> -> Hermitian
    [] OTHER -> "default"

\* lines 641-645: a read error other than io.EOF is returned at once
HeaderReadFails_EOF(rerr) == rerr # "nil"

HeaderReadFails(rerr) == rerr \notin {"nil", "EOF"}

\* line 649: the number of tokens a header holds
HeaderTokenCount_AtLeast(tokens) == Len(tokens) >= 5

HeaderTokenCount(tokens) == Len(tokens) = 5

\* The header fields and the error after ParseHeader has read b with read error
\* rerr, starting from the fields f, t, s.  io.EOF is not an error: the bytes
\* read are parsed all the same.  A field is assigned as soon as its token is
\* decoded.
HeaderResult(b, rerr, f, t, s) ==
  LET tokens == Split(TrimSpace(b))
      R(e, f1, t1, s1) == [err |-> e, Format |-> f1, Type |-> t1, Symmetry |-> s1]
  IN IF HeaderReadFails(rerr) THEN R(rerr, f, t, s)
     ELSE IF ~HeaderTokenCount(tokens) THEN R("Wrong number of header tokens", f, t, s)
     ELSE IF ~EqualFold(tokens[1], "%%MatrixMarket") THEN R("Expected header", f, t, s)
     ELSE IF ~EqualFold(tokens[2], "matrix") THEN R("Unsupported object", f, t, s)
     ELSE IF HeaderFormat(tokens[3]) = "default" THEN R("Unsupported format", f, t, s)
     ELSE IF HeaderType(tokens[4]) = "default"
          THEN R("Unsupported type", HeaderFormat(tokens[3]), t, s)
     ELSE IF HeaderSymmetry(tokens[5]) = "default"
          THEN R("Unsupported matrix symmetry", HeaderFormat(tokens[3]),
                 HeaderType(tokens[4]), s)
     ELSE R("nil", HeaderFormat(tokens[3]), HeaderType(tokens[4]),
            HeaderSymmetry(tokens[5]))

ReadErr(r) == IF r.eof THEN "EOF" ELSE "nil"

\* Parse's first stage on a first line drawn from ls; the read fills the
\* buffer with what follows the first line, drawn from ss
ParseHeader(ls, ss) ==
  /\ pc = "header"
  /\ \E r \in Reads(ls), st \in ss, more \in BOOLEAN :
       LET h == HeaderResult(r.b, ReadErr(r), Format, Type, Symmetry) IN
       /\ r.eof => st = NoLines
       /\ more => MayGoOn(st)
       /\ buf' = st /\ pos' = 0
       /\ line' = r.b
       /\ readErr' = ReadErr(r)
       /\ rd' = IF more THEN "open" ELSE "eof"
       /\ Format' = h.Format /\ Type' = h.Type /\ Symmetry' = h.Symmetry
       /\ err' = h.err
       /\ pc' = IF h.err = "nil" THEN "comment" ELSE "failed"
  /\ UNCHANGED <<comment, dimVars, nnz, bodyVars, saveVars>>

(***************************************************************************)
(* First lines.  Join puts single spaces between words.                    *)
(***************************************************************************)
RECURSIVE Join(_)
Join(ws) ==
  IF ws = <<>> THEN <<>>
  ELSE IF Len(ws) = 1 THEN <<Head(ws)>>
  ELSE <<Head(ws), SP>> \o Join(Tail(ws))

Tok0 == {"%%MatrixMarket", "%%matrixmarket", "%MatrixMarket"}
Tok1 == {"matrix", "MATRIX", "vector"}
Tok2 == {"array", "Array", "coordinate", "COORDINATE", "c"}
Tok3 == {"real", "Real", "complex", "integer", "pattern", "r"}
Tok4 == {"general", "symmetric", "skew-symmetric", "Skew-Symmetric", "hermitian", "g"}

FiveWords == {<<W(a), W(b), W(c), W(d), W(e)>> :
                a \in Tok0, b \in Tok1, c \in Tok2, d \in Tok3, e \in Tok4}

\* every combination of five words, alone, with white space around it, with a
\* doubled space, with a tab for a space, with a word missing or added
RichHeaderLines ==
  UNION {{Join(w),
          <<SP>> \o Join(w),
          Join(w) \o <<SP, TAB>>,
          <<w[1], SP, SP>> \o Join(Tail(w)),
          <<w[1], TAB>> \o Join(Tail(w)),
          Join(Tail(w)),
          Join(w) \o <<SP, W("x")>>} : w \in FiveWords}
  \cup {<<>>, <<W("%%MatrixMarket")>>}

NextHeader == ParseHeader(RichHeaderLines, {NoLines})

SpecHeader == Init /\ [][NextHeader]_vars


(***************************************************************************)
(* ParseComment                                                            *)
(***************************************************************************)
\* comment.Write(b) for each line of cs; every line but possibly the last ends
\* with its newline
RECURSIVE CommentBytes(_, _)
CommentBytes(cs, lastHasNL) ==
  IF cs = <<>> THEN <<>>
  ELSE IF Len(cs) = 1 THEN Head(cs) \o (IF lastHasNL THEN <<NL>> ELSE <<>>)
  ELSE Head(cs) \o <<NL>> \o CommentBytes(Tail(cs), lastHasNL)

\* lines 737-739: the field is assigned only when something was read
CommentField(acc, old) == IF Len(acc) > 0 THEN acc ELSE old

CommentRun_OneLine(ls, p) ==
  IF p < Len(ls) /\ IsCommentStart(ls[p + 1]) THEN p + 1 ELSE p

\* lines 712-735: the loop peeks at the next byte and reads the line when it
\* is '%', a newline, a space or a tab; it ends at another byte, which is left
\* unread, or at the end of the stream.  The cursor after the loop that
\* starts with p lines of ls read.
RECURSIVE CommentRun(_, _)
CommentRun(ls, p) ==
  IF p < Len(ls) /\ IsCommentStart(ls[p + 1]) THEN CommentRun(ls, p + 1) ELSE p

\* Parse's second stage
ParseComment ==
  /\ pc = "comment"
  /\ LET q == CommentRun(buf.ls, pos)
         cs == SubSeq(buf.ls, pos + 1, q)
         cutLast == q > pos /\ q = Len(buf.ls) /\ buf.cut
     IN /\ comment' = CommentField(CommentBytes(cs, ~cutLast), comment)
        /\ pos' = q
        /\ line' = IF cs = <<>> THEN line ELSE cs[Len(cs)]
        /\ readErr' = IF cutLast THEN "EOF" ELSE "nil"
  /\ err' = "nil"
  /\ pc' = "dims"
  /\ UNCHANGED <<rd, buf, hdrVars, dimVars, nnz, bodyVars, saveVars>>

(***************************************************************************)
(* ParseDimensions                                                         *)
(***************************************************************************)
\* lines 746-748: any error of the read, io.EOF included, is returned
DimsReadFails(rerr) == rerr # "nil"

\* The dimension fields and the error after ParseDimensions has read b with
\* read error rerr under format f, starting from the fields n0, m0, l0.  n is
\* assigned before the second token is converted, m before the third is looked at.
DimsResult(b, rerr, f, n0, m0, l0) ==
  LET dims == Split(TrimSpace(b))
      R(e, n1, m1, l1) == [err |-> e, n |-> n1, m |-> m1, lines |-> l1]
  IN IF DimsReadFails(rerr) THEN R(rerr, n0, m0, l0)
     ELSE IF Len(dims) < 2 THEN R("Expect at least two values", n0, m0, l0)
     ELSE IF ~AtoiOk(dims[1]) THEN R("strconv.Atoi", n0, m0, l0)
     ELSE IF ~AtoiOk(dims[2]) THEN R("strconv.Atoi", AtoiVal(dims[1]), m0, l0)
     ELSE LET n1 == AtoiVal(dims[1])
              m1 == AtoiVal(dims[2])
          IN IF f = FormatArray THEN R("nil", n1, m1, n1 * m1)
             ELSE IF Len(dims) < 3 THEN R("Expect at least three values", n1, m1, l0)
             ELSE IF ~AtoiOk(dims[3]) THEN R("strconv.Atoi", n1, m1, l0)
             ELSE R("nil", n1, m1, AtoiVal(dims[3]))

\* Parse's third stage on a size line drawn from ls
ParseDimensions(ls) ==
  /\ pc = "dims"
  /\ \E r \in Reads(ls) :
       LET d == DimsResult(r.b, ReadErr(r), Format, n, m, lines) IN
       /\ line' = r.b
       /\ readErr' = ReadErr(r)
       /\ rd' = AfterRead(r) /\ pos' = Advance
       /\ n' = d.n /\ m' = d.m /\ lines' = d.lines
       /\ err' = d.err
       /\ pc' = IF d.err = "nil" THEN "body" ELSE "failed"
  /\ UNCHANGED <<buf, hdrVars, comment, nnz, bodyVars, saveVars>>

(***************************************************************************)
(* The matrices of the libraries                                           *)
(***************************************************************************)
Abs(x) == IF x < 0 THEN -x ELSE x

\* sparse.COO.Set as called on lines 855, 861, 863: the triplet is appended;
\* an index outside the r x c shape panics.  c is the sequence of triplets.
CooInRange(r, c, i, j) == 0 <= i /\ i < r /\ 0 <= j /\ j < c
CooSet(c, i, j, v) == Append(c, [i |-> i, j |-> j, v |-> v])

RECURSIVE Dedupe_LastWins(_, _)
Dedupe_LastWins(ts, acc) ==
  IF ts = <<>> THEN acc
  ELSE LET t == Head(ts)
           hit == {x \in 1..Len(acc) : acc[x].j = t.j}
       IN IF hit = {}
          THEN Dedupe_LastWins(Tail(ts), Append(acc, [j |-> t.j, v |-> t.v]))
          ELSE LET x == CHOOSE y \in hit : TRUE
               IN Dedupe_LastWins(Tail(ts), [acc EXCEPT ![x].v = t.v])

\* the stored entries of one row: the row's triplets in insertion order, a
\* duplicate column added into the first entry of that column
RECURSIVE Dedupe(_, _)
Dedupe(ts, acc) ==
  IF ts = <<>> THEN acc
  ELSE LET t == Head(ts)
           hit == {x \in 1..Len(acc) : acc[x].j = t.j}
       IN IF hit = {}
          THEN Dedupe(Tail(ts), Append(acc, [j |-> t.j, v |-> t.v]))
          ELSE LET x == CHOOSE y \in hit : TRUE
               IN Dedupe(Tail(ts), [acc EXCEPT ![x].v = @ + t.v])

\* sparse.COO.ToCSR as called on line 872
ToCSR(c, r, cc) ==
  [kind |-> "csr", r |-> r, c |-> cc,
   rows |-> [x \in 1..r |-> Dedupe(SelectSeq(c, LAMBDA t : t.i = x - 1), <<>>)]]

\* mat.NewDense(r, c, nil) and the Set calls of lines 903-908; data is row-major
DenseIndex(r, c, i, j) == i * c + j + 1

\* Dims, At and NNZ of a matrix of either kind
MatDims(A) == <<A.r, A.c>>

CsrAt(A, i, j) ==
  LET hit == {x \in 1..Len(A.rows[i + 1]) : A.rows[i + 1][x].j = j}
  IN IF hit = {} THEN 0 ELSE A.rows[i + 1][CHOOSE x \in hit : TRUE].v

MatAt(A, i, j) ==
  IF A.kind = "csr" THEN CsrAt(A, i, j) ELSE A.data[DenseIndex(A.r, A.c, i, j)]

RECURSIVE SumLen(_, _)
SumLen(rows, x) == IF x = 0 THEN 0 ELSE Len(rows[x]) + SumLen(rows, x - 1)

\* sparse.CSR.NNZ: the number of stored entries
CsrNNZ(A) == SumLen(A.rows, A.r)

(***************************************************************************)
(* ParseCoordinate                                                         *)
(***************************************************************************)
\* line 850: math.Abs(v) < math.SmallestNonzeroFloat64; the values of the model
\* are multiples of 1/2, and only 0 is below the smallest positive float64
IsExplicitZero_Never(v) == FALSE

IsExplicitZero(v) == Abs(v) < 1

\* line 855: the correction for the one-based indices of the file
OneBase_None(i) == i

OneBase(i) == i - 1

\* lines 858-865: the counterpart of triplet (i, j, v) under symmetry sym, as a
\* sequence of at most one triplet of one-based indices
Mirror_Same(sym, i, j, v) ==
  IF i # j /\ sym \in {Symmetric, SkewSymmetric} THEN <<[i |-> j, j |-> i, v |-> v]>>
  ELSE <<>>

Mirror_None(sym, i, j, v) == <<>>

Mirror(sym, i, j, v) ==
  IF i # j
  THEN CASE sym = Symmetric -> <<[i |-> j, j |-> i, v |-> v]>>
         [] sym = SkewSymmetric -> <<[i |-> j, j |-> i, v |-> -v]>>
         [] OTHER -> <<>>
  ELSE <<>>

\* splitTriplet: the three fields of a line, or an error
SplitTriplet(b) ==
  LET splits == Fields(TrimSpace(b))
      R(e, i, j, v) == [err |-> e, i |-> i, j |-> j, v |-> v]
  IN IF Len(splits) # 3 THEN R("Too little entries to unpack triplet", 0, 0, 0)
     ELSE IF ~AtoiOk(splits[1]) THEN R("strconv.Atoi", 0, 0, 0)
     ELSE IF ~AtoiOk(splits[2]) THEN R("strconv.Atoi", AtoiVal(splits[1]), 0, 0)
     ELSE IF ~ParseFloatOk(splits[3])
          THEN R("strconv.ParseFloat", AtoiVal(splits[1]), AtoiVal(splits[2]), 0)
     ELSE R("nil", AtoiVal(splits[1]), AtoiVal(splits[2]), ParseFloatVal(splits[3]))

\* One iteration of the loop of lines 842-866 on the scanned line b: the COO
\* matrix c of shape r x cc after it, and how it ended: "ok", "err" (the
\* function returns err) or "panic" (a Set outside the shape).
CoordStep(c, sym, r, cc, b) ==
  LET t == SplitTriplet(b)
      R(k, e, c1) == [kind |-> k, err |-> e, coo |-> c1, t |-> t]
      mir == Mirror(sym, t.i, t.j, t.v)
  IN IF t.err # "nil" THEN R("err", t.err, c)
     ELSE IF IsExplicitZero(t.v) THEN R("ok", "nil", c)
     ELSE IF ~CooInRange(r, cc, OneBase(t.i), OneBase(t.j)) THEN R("panic", "nil", c)
     ELSE LET c1 == CooSet(c, OneBase(t.i), OneBase(t.j), t.v)
          IN IF mir = <<>> THEN R("ok", "nil", c1)
             ELSE IF ~CooInRange(r, cc, OneBase(mir[1].i), OneBase(mir[1].j))
                  THEN R("panic", "nil", c1)
             ELSE R("ok", "nil", CooSet(c1, OneBase(mir[1].i), OneBase(mir[1].j), mir[1].v))

\* lines 830-833: ParseCoordinate refuses an empty shape
CoordinateEmpty ==
  /\ pc = "body" /\ Format = FormatCoordinate
  /\ n = 0 \/ m = 0
  /\ err' = "Matrix dimensions are empty"
  /\ pc' = "failed"
  /\ UNCHANGED <<rd, bufVars, line, readErr, hdrVars, comment, dimVars, nnz, bodyVars, saveVars>>

\* scanner.Scan() returns a line, drawn from ls: one iteration of the loop
CoordinateLine(ls) ==
  /\ pc = "body" /\ Format = FormatCoordinate
  /\ n # 0 /\ m # 0
  /\ Len(entries) < MaxEntries
  /\ \E r \in Scans(ls) :
       \* lines 867-869: the error of the scanner is returned behind the loop
       LET s == IF TooLong(r.b)
                THEN [kind |-> "err", err |-> "bufio.Scanner: token too long",
                      coo |-> coo, t |-> SplitTriplet(r.b)]
                ELSE CoordStep(coo, Symmetry, n, m, r.b) IN
       /\ line' = r.b
       /\ rd' = AfterRead(r) /\ pos' = Advance
       \* the locals are gone when the function does not go on
       /\ coo' = IF s.kind = "ok" THEN s.coo ELSE <<>>
       /\ entries' = IF s.kind = "ok"
                     THEN Append(entries, [i |-> s.t.i, j |-> s.t.j, v |-> s.t.v])
                     ELSE <<>>
       /\ err' = s.err
       /\ pc' = CASE s.kind = "ok" -> "body"
                  [] s.kind = "err" -> "failed"
                  [] OTHER -> "panic"
  /\ UNCHANGED <<buf, readErr, hdrVars, comment, dimVars, nnz, values, mat, saveVars>>

\* scanner.Scan() returns false at the end of the stream: lines 867-873, and
\* Parse returns matrix.mat
CoordinateEnd ==
  /\ pc = "body" /\ Format = FormatCoordinate
  /\ n # 0 /\ m # 0
  /\ pos >= Len(buf.ls)
  /\ rd' = "eof"
  /\ mat' = ToCSR(coo, n, m)
  /\ err' = "nil"
  /\ pc' = "done"
  /\ UNCHANGED <<bufVars, line, readErr, hdrVars, comment, dimVars, nnz, entries, coo, values, saveVars>>

(***************************************************************************)
(* ParseArrayFormat                                                        *)
(***************************************************************************)
\* line 906: the position in values of element (r, c) of an nn x mm matrix
ArrayIndex_RowMajor(c, r, nn, mm) == r * mm + c

ArrayIndex(c, r, nn, mm) == c * nn + r

\* values = make([]float64, n*m) with vs written at its front
ValueAt(vs, k) == IF k + 1 <= Len(vs) THEN vs[k + 1] ELSE 0

\* lines 903-909: the dense matrix built from the values read
ArrayToDense(vs, nn, mm) ==
  [kind |-> "dense", r |-> nn, c |-> mm,
   data |-> [x \in 1..(nn * mm) |->
               LET i == (x - 1) \div mm
                   j == (x - 1) % mm
               IN ValueAt(vs, ArrayIndex(j, i, nn, mm))]]

\* One iteration of the loop of lines 890-898 on the scanned line b: the values
\* after it and how it ended: "ok", "err", or "panic" (values[cnt] is out of range)
ArrayStep(vs, nn, mm, b) ==
  LET tok == TrimSpace(b)
      R(k, e, vs1) == [kind |-> k, err |-> e, values |-> vs1]
  IN IF ~ParseFloatOk(tok) THEN R("err", "strconv.ParseFloat", vs)
     ELSE IF Len(vs) >= nn * mm THEN R("panic", "nil", vs)
     ELSE R("ok", "nil", Append(vs, ParseFloatVal(tok)))

\* lines 879-882
ArrayEmpty ==
  /\ pc = "body" /\ Format = FormatArray
  /\ n = 0 \/ m = 0
  /\ err' = "Matrix dimensions are empty"
  /\ pc' = "failed"
  /\ UNCHANGED <<rd, bufVars, line, readErr, hdrVars, comment, dimVars, nnz, bodyVars, saveVars>>

\* scanner.Scan() returns a line, drawn from ls: one iteration of the loop.
\* On a line the scanner cannot return, Scan returns false; scanner.Err() is
\* not looked at, and lines 900-910 build the matrix from what was read.
ArrayLine(ls) ==
  /\ pc = "body" /\ Format = FormatArray
  /\ n # 0 /\ m # 0
  /\ \E r \in Scans(ls) :
       LET s == IF TooLong(r.b)
                THEN [kind |-> "stop", err |-> "nil", values |-> values]
                ELSE ArrayStep(values, n, m, r.b) IN
       /\ line' = r.b
       /\ rd' = AfterRead(r) /\ pos' = Advance
       \* what was read stays in view at a panic; it is gone after a return
       /\ values' = IF s.kind = "err" THEN <<>> ELSE s.values
       /\ mat' = IF s.kind = "stop" THEN ArrayToDense(values, n, m) ELSE mat
       /\ err' = s.err
       /\ pc' = CASE s.kind = "ok" -> "body"
                  [] s.kind = "err" -> "failed"
                  [] s.kind = "stop" -> "done"
                  [] OTHER -> "panic"
  /\ UNCHANGED <<buf, readErr, hdrVars, comment, dimVars, nnz, entries, coo, saveVars>>

\* scanner.Scan() returns false: the matrix is built from what was read
ArrayEnd ==
  /\ pc = "body" /\ Format = FormatArray
  /\ n # 0 /\ m # 0
  /\ pos >= Len(buf.ls)
  /\ rd' = "eof"
  /\ mat' = ArrayToDense(values, n, m)
  /\ err' = "nil"
  /\ pc' = "done"
  /\ UNCHANGED <<bufVars, line, readErr, hdrVars, comment, dimVars, nnz, entries, coo, values, saveVars>>

(***************************************************************************)
(* SaveToMatrixMarket                                                      *)
(***************************************************************************)
\* csr.DoNonZero: the stored entries row by row, each row in storage order
RECURSIVE DoNonZero(_, _)
DoNonZero(A, i) ==
  IF i >= A.r THEN <<>>
  ELSE [x \in 1..Len(A.rows[i + 1]) |->
          [i |-> i, j |-> A.rows[i + 1][x].j, v |-> A.rows[i + 1][x].v]]
       \o DoNonZero(A, i + 1)

\* line 967: one written line per visited entry, with one-based indices
WriteNonZero(t) == <<IntTok(t.i + 1), SP, IntTok(t.j + 1), SP, FormatV(t.v)>>

RECURSIVE DenseColumns_RowMajor(_, _)
DenseColumns_RowMajor(A, k) ==
  IF k >= A.r * A.c THEN <<>>
  ELSE <<<<FormatV(MatAt(A, k \div A.c, k % A.c))>>>> \o DenseColumns_RowMajor(A, k + 1)

\* lines 984-988: one value per line, column after column
RECURSIVE DenseColumns(_, _)
DenseColumns(A, k) ==
  IF k >= A.r * A.c THEN <<>>
  ELSE <<<<FormatV(MatAt(A, k % A.r, k \div A.r))>>>> \o DenseColumns(A, k + 1)

\* the lines SaveToMatrixMarket writes for matrix A, each ended by a newline
SavedLines(A) ==
  IF A.kind = "csr"
  THEN <<Join(<<W("%%MatrixMarket"), W("matrix"), W(FormatCoordinate), W(TypeReal),
                W(General)>>),
         <<IntTok(A.r), SP, IntTok(A.c), SP, IntTok(CsrNNZ(A))>>>>
       \o [x \in 1..CsrNNZ(A) |-> WriteNonZero(DoNonZero(A, 0)[x])]
  ELSE <<Join(<<W("%%MatrixMarket"), W("matrix"), W(FormatArray), W(TypeReal),
                W(General)>>),
         <<IntTok(A.r), SP, IntTok(A.c)>>>>
       \o DenseColumns(A, 0)

\* SaveToMatrixMarket on the matrix Parse returned
Save ==
  /\ pc = "done"
  /\ out' = SavedLines(mat)
  /\ pc' = "saved"
  /\ UNCHANGED <<rd, bufVars, line, readErr, err, hdrVars, comment, dimVars, nnz, bodyVars, mat2>>

(***************************************************************************)
(* Parse on a whole text: the stages above, run on a sequence of lines     *)
(* that all end with a newline, from a fresh Matrix                        *)
(***************************************************************************)
RECURSIVE CoordinateFold(_, _, _, _, _)
CoordinateFold(c, sym, r, cc, ls) ==
  IF ls = <<>> THEN [kind |-> "ok", err |-> "nil", coo |-> c]
  ELSE LET s == CoordStep(c, sym, r, cc, Head(ls))
       IN IF s.kind = "ok" THEN CoordinateFold(s.coo, sym, r, cc, Tail(ls))
          ELSE [kind |-> s.kind, err |-> s.err, coo |-> s.coo]

RECURSIVE ArrayFold(_, _, _, _)
ArrayFold(vs, r, cc, ls) ==
  IF ls = <<>> THEN [kind |-> "ok", err |-> "nil", values |-> vs]
  ELSE LET s == ArrayStep(vs, r, cc, Head(ls))
       IN IF s.kind = "ok" THEN ArrayFold(s.values, r, cc, Tail(ls))
          ELSE [kind |-> s.kind, err |-> s.err, values |-> vs]

ParseText(ls) ==
  LET Fail(k, e) == [kind |-> k, err |-> e, mat |-> NoMat]
      h == HeaderResult(IF ls = <<>> THEN <<>> ELSE ls[1],
                        IF ls = <<>> THEN "EOF" ELSE "nil", "", "", "")
      data == {x \in 2..Len(ls) : ~IsCommentStart(ls[x])}
      k == CHOOSE x \in data : \A y \in data : x <= y
      d == DimsResult(ls[k], "nil", h.Format, 0, 0, 0)
      rest == SubSeq(ls, k + 1, Len(ls))
  IN IF h.err # "nil" THEN Fail("err", h.err)
     ELSE IF data = {} THEN Fail("err", "EOF")
     ELSE IF d.err # "nil" THEN Fail("err", d.err)
     ELSE IF d.n = 0 \/ d.m = 0 THEN Fail("err", "Matrix dimensions are empty")
     ELSE IF h.Format = FormatCoordinate
          THEN LET f == CoordinateFold(<<>>, h.Symmetry, d.n, d.m, rest)
               IN IF f.kind = "ok"
                  THEN [kind |-> "ok", err |-> "nil", mat |-> ToCSR(f.coo, d.n, d.m)]
                  ELSE Fail(f.kind, f.err)
          ELSE LET f == ArrayFold(<<>>, d.n, d.m, rest)
               IN IF f.kind = "ok"
                  THEN [kind |-> "ok", err |-> "nil", mat |-> ArrayToDense(f.values, d.n, d.m)]
                  ELSE Fail(f.kind, f.err)

\* the written text is parsed again
Reparse ==
  /\ pc = "saved"
  /\ mat2' = ParseText(out)
  /\ pc' = "reparsed"
  /\ UNCHANGED <<rd, bufVars, line, readErr, err, hdrVars, comment, dimVars, nnz, bodyVars, out>>

(***************************************************************************)
(* The inputs of the full run                                              *)
(***************************************************************************)
\* first lines: every symmetry of real coordinate matrices, a real array, and
\* a line with a single '%'
CoreHeaderLines ==
  {Join(<<W("%%MatrixMarket"), W("matrix"), W("coordinate"), W("real"), W(s)>>) :
     s \in {"general", "symmetric", "skew-symmetric", "hermitian"}}
  \cup {Join(<<W("%%MatrixMarket"), W("matrix"), W("array"), W("real"), W("general")>>),
        Join(<<W("%MatrixMarket"), W("matrix"), W("coordinate"), W("real"), W("general")>>)}

\* the full run reads no comment
CoreCommentLines == {}

\* size lines: three, two, one and four tokens, a token that is no integer, a
\* doubled space; the entry count written is 0 or MaxEntries
CoreSizeLines ==
  {Join(<<IntTok(a), IntTok(b), IntTok(k)>>) :
     a \in 0..MaxDim, b \in 0..MaxDim, k \in {0, MaxEntries}}
  \cup {Join(<<IntTok(a), IntTok(b)>>) : a \in 0..MaxDim, b \in 0..MaxDim}
  \cup {<<IntTok(1)>>,
        Join(<<IntTok(1), IntTok(1), IntTok(1), IntTok(1)>>),
        Join(<<IntTok(1), FltTok(2), IntTok(1)>>),
        <<IntTok(1), SP, SP, IntTok(1), SP, IntTok(1)>>}

\* behind the first line the buffer holds nothing or a size line
CoreStreams == Streams(CoreCommentLines \cup CoreSizeLines, 1)

\* an entry line; the white space between and around its fields varies with
\* the position: single spaces, a run of spaces, or tabs and outer spaces
Triplet(i, j, v) ==
  CASE (i + j) % 3 = 0 -> <<IntTok(i), SP, IntTok(j), SP, SP, SP, v>>
    [] (i + j) % 3 = 1 -> <<SP, IntTok(i), TAB, IntTok(j), SP, v, SP>>
    [] OTHER -> Join(<<IntTok(i), IntTok(j), v>>)

\* entry lines: 1.5 at every position of the largest shape, 1 at (1, 1), 0 on
\* and off the diagonal, 1.5 with an index of 0 or beyond the largest shape,
\* lines that are no triplets, and a line too long for the scanner
EntryLines ==
  {Triplet(i, j, FltTok(3)) : i \in 1..MaxDim, j \in 1..MaxDim}
  \cup {Triplet(1, 1, IntTok(1)), Triplet(1, 1, IntTok(0)), Triplet(2, 1, IntTok(0))}
  \cup {Triplet(i, j, FltTok(3)) : i \in {0, 1, MaxDim + 1}, j \in {0, MaxDim + 1}}
  \cup {<<>>,
        <<SP>>,
        Join(<<IntTok(1), IntTok(1)>>),
        Join(<<IntTok(1), IntTok(1), IntTok(1), IntTok(1)>>),
        Join(<<FltTok(2), IntTok(1), IntTok(1)>>),
        Join(<<IntTok(1), IntTok(1), W("x")>>),
        <<LONG>>}

\* value lines of the array format: 1 and 1.5, lines that are no values, and
\* a line too long for the scanner
ValueLines ==
  {<<IntTok(1)>>, <<SP, FltTok(3), SP>>, <<>>, <<W("x")>>,
   Join(<<IntTok(1), IntTok(1)>>), <<LONG>>}

(***************************************************************************)
(* The full run: Parse on a stream, SaveToMatrixMarket on the matrix it    *)
(* returned, Parse on the text written                                     *)
(***************************************************************************)
Next ==
  \/ ParseHeader(CoreHeaderLines, CoreStreams)
  \/ ParseComment
  \/ ParseDimensions(CoreSizeLines)
  \/ CoordinateEmpty
  \/ CoordinateLine(EntryLines)
  \/ CoordinateEnd
  \/ ArrayEmpty
  \/ ArrayLine(ValueLines)
  \/ ArrayEnd
  \/ Save
  \/ Reparse

Spec == Init /\ [][Next]_vars

(***************************************************************************)
(* Claims on ParseHeader, checked under SpecHeader                         *)
(***************************************************************************)
\* the spellings of a word that differ in the case of letters only
Spellings(s) ==
  CASE s = "%%matrixmarket" -> {"%%matrixmarket", "%%MatrixMarket"}
    [] s = "matrix" -> {"matrix", "MATRIX"}
    [] s = "array" -> {"array", "Array"}
    [] s = "coordinate" -> {"coordinate", "COORDINATE"}
    [] s = "real" -> {"real", "Real"}
    [] s = "skew-symmetric" -> {"skew-symmetric", "Skew-Symmetric"}
    [] OTHER -> {s}

SpellingsOf(S) == UNION {Spellings(s) : s \in S}

\* the line without the white space at its two ends
Core(l) ==
  LET idx == {x \in 1..Len(l) : ~IsSpace(l[x])}
      lo == CHOOSE x \in idx : \A y \in idx : x <= y
      hi == CHOOSE x \in idx : \A y \in idx : y <= x
  IN IF idx = {} THEN <<>> ELSE SubSeq(l, lo, hi)

\* five words separated by single spaces: the sentinel, the object, a format, an
\* element type and a symmetry, in any letter case
WellFormedHeader(l) ==
  LET c == Core(l) IN
  /\ Len(c) = 9
  /\ \A x \in {2, 4, 6, 8} : c[x] = SP
  /\ \A x \in {1, 3, 5, 7, 9} : c[x].k = "w"
  /\ c[1].s \in Spellings("%%matrixmarket")
  /\ c[3].s \in Spellings("matrix")
  /\ c[5].s \in SpellingsOf({"array", "coordinate"})
  /\ c[7].s \in SpellingsOf({"real", "complex", "integer", "pattern"})
  /\ c[9].s \in SpellingsOf({"general", "symmetric", "skew-symmetric", "hermitian"})

\* C9: ParseHeader returns an error exactly when the first line, trimmed and
\* split on single spaces, is not five tokens naming the sentinel, "matrix", a
\* format, an element type and a symmetry in any letter case; whether the
\* line ended at a newline or at the end of the stream makes no difference.
C9_HeaderErrorIff ==
  pc # "header" => ((err # "nil") <=> ~WellFormedHeader(line))

\* a header in mixed letter case accepted at the end of the stream
C9_Witness ==
  /\ pc = "comment" /\ err = "nil" /\ readErr = "EOF"
  /\ line = Join(<<W("%%matrixmarket"), W("MATRIX"), W("COORDINATE"), W("Real"),
                   W("Skew-Symmetric")>>)

\* C10 as stated: ParseHeader returns an error whenever the read of the first
\* line ends at the end of the stream.
C10_EOFAlwaysFails ==
  (pc # "header" /\ readErr = "EOF") => err # "nil"

\* C10 as amended: the end of the stream is not an error of its own; the bytes
\* read before it are the header.  An empty stream fails with the token count
\* error, and a first line that ends at the end of the stream fails exactly
\* when it is not a well-formed header.
C10_EOFParsesBytesRead ==
  (pc # "header" /\ readErr = "EOF") =>
    /\ (line = <<>> => err = "Wrong number of header tokens")
    /\ (WellFormedHeader(line) => err = "nil" /\ pc = "comment")
    /\ (~WellFormedHeader(line) => err # "nil" /\ pc = "failed")

\* the empty stream
C10_Witness ==
  pc = "failed" /\ readErr = "EOF" /\ line = <<>> /\ rd = "eof"

(***************************************************************************)
(* Claims on Parse, checked under Spec                                     *)
(***************************************************************************)
\* Parse has returned, or has panicked
Returned == pc \in {"failed", "panic", "done", "saved", "reparsed"}

\* Parse has returned a matrix
Succeeded == pc \in {"done", "saved", "reparsed"}

\* the entry lines the body has read address (i, j), one-based
Addresses(i, j) == {x \in 1..Len(entries) : entries[x].i = i /\ entries[x].j = j}

C1_Header == Format = FormatCoordinate /\ Type = TypeReal /\ Symmetry = General

\* a size line 'rows cols entries' of a matrix of at least one row and column
C1_SizeLine(l) ==
  LET d == Split(TrimSpace(l)) IN
  /\ Len(d) = 3
  /\ \A x \in 1..3 : AtoiOk(d[x])
  /\ AtoiVal(d[1]) >= 1 /\ AtoiVal(d[2]) >= 1 /\ AtoiVal(d[3]) >= 0

\* triplet t has a nonzero value at a position of the r x c matrix
C1_Entry(t, r, c) == t.v # 0 /\ t.i \in 1..r /\ t.j \in 1..c

C1_EntryLine(l, r, c) ==
  SplitTriplet(l).err = "nil" /\ C1_Entry(SplitTriplet(l), r, c)

\* the stream Parse was given is an input of C1, as far as the state tells:
\* it ended in a size line that announces no entry, or all its entry lines
\* were read and are as many as announced, nonzero, inside the shape and at
\* pairwise distinct positions, or Parse stopped at such an entry line
C1_Input ==
  /\ Returned /\ C1_Header
  /\ \/ /\ pc = "failed" /\ readErr = "EOF" /\ entries = <<>>
        /\ C1_SizeLine(line) /\ AtoiVal(Split(TrimSpace(line))[3]) = 0
     \/ /\ Succeeded
        /\ Len(entries) = lines
        /\ \A x \in 1..Len(entries) : C1_Entry(entries[x], n, m)
        /\ \A x, y \in 1..Len(entries) :
             entries[x].i = entries[y].i /\ entries[x].j = entries[y].j => x = y
     \/ /\ ~Succeeded /\ readErr = "nil" /\ n >= 1 /\ m >= 1
        /\ C1_EntryLine(line, n, m)

\* Parse returned a CSR matrix of the announced shape that holds the value of
\* every entry line at its position, and 0 elsewhere
C1_Result ==
  /\ Succeeded /\ err = "nil"
  /\ mat.kind = "csr"
  /\ MatDims(mat) = <<n, m>>
  /\ \A x \in 1..Len(entries) :
       MatAt(mat, entries[x].i - 1, entries[x].j - 1) = entries[x].v
  /\ \A i \in 1..n, j \in 1..m :
       Addresses(i, j) = {} => MatAt(mat, i - 1, j - 1) = 0

\* C1: for every 'coordinate real general' input with size line 'rows cols
\* entries' and entry lines of nonzero value inside the shape at pairwise
\* distinct positions, Parse succeeds and returns a CSR matrix with
\* Dims() = (rows, cols), At(r-1, c-1) = v for every entry line and 0 elsewhere.
C1_CoordinateGeneralParses == C1_Input => C1_Result

\* The part of C1 that holds: the same when the size line ends with a newline.
C1_Terminated == (C1_Input /\ ~(pc = "failed" /\ readErr = "EOF")) => C1_Result

\* two entry lines read into a 2 x 2 matrix, the second before the first in
\* the order of the positions
C1_TerminatedCase ==
  /\ C1_Input /\ pc = "done" /\ n = 2 /\ m = 2
  /\ Len(entries) = 2 /\ entries[1].i = 2 /\ entries[2].i = 1 /\ entries[2].j = 2

(***************************************************************************)
(* Claims on the symmetries of ParseCoordinate, checked under Spec         *)
(***************************************************************************)
\* Parse has returned the matrix of a coordinate input
CoordinateParsed == Succeeded /\ Format = FormatCoordinate

\* one-based (i, j) and (j, i) are positions of the matrix; a line of value
\* zero is read without a look at its indices
InShape(i, j) == i \in 1..n /\ j \in 1..m /\ j \in 1..n /\ i \in 1..m

\* C2 as stated: for every off-diagonal entry line (i, j, v) with nonzero v
\* parsed under 'symmetric', the matrix has at(i, j) = at(j, i) = v.
C2_SymmetricEqualsLine ==
  (CoordinateParsed /\ Symmetry = Symmetric) =>
    \A x \in 1..Len(entries) :
      LET e == entries[x] IN
      (e.i # e.j /\ e.v # 0) =>
        /\ MatAt(mat, e.i - 1, e.j - 1) = e.v
        /\ MatAt(mat, e.j - 1, e.i - 1) = e.v

\* C2 as amended: under 'symmetric' the matrix has at(i, j) = at(j, i) for
\* every off-diagonal entry line (i, j, v), and the common value is v when no
\* other entry line addresses (i, j) or (j, i).
C2_SymmetricLoneLine ==
  (CoordinateParsed /\ Symmetry = Symmetric) =>
    \A x \in 1..Len(entries) :
      LET e == entries[x] IN
      (e.i # e.j /\ InShape(e.i, e.j)) =>
        /\ MatAt(mat, e.i - 1, e.j - 1) = MatAt(mat, e.j - 1, e.i - 1)
        /\ (Addresses(e.i, e.j) \cup Addresses(e.j, e.i) = {x} =>
              MatAt(mat, e.i - 1, e.j - 1) = e.v)

\* the lines '2 1 1.5' and '1 2 1.5' of a symmetric matrix: 3 at both places
C2_Witness ==
  /\ CoordinateParsed /\ Symmetry = Symmetric /\ Len(entries) = 2
  /\ entries[1] = [i |-> 2, j |-> 1, v |-> 3]
  /\ entries[2] = [i |-> 1, j |-> 2, v |-> 3]
  /\ MatAt(mat, 1, 0) = 6 /\ MatAt(mat, 0, 1) = 6

\* the triplets of the COO matrix at zero-based (i, j)
CooAt(i, j) == {x \in 1..Len(coo) : coo[x].i = i /\ coo[x].j = j}

\* the entry lines of nonzero value that address one-based (i, j)
NonZeroAt(i, j) == {x \in Addresses(i, j) : entries[x].v # 0}

\* C3: under 'skew-symmetric', at(i, j) = v implies at(j, i) = -v for every
\* off-diagonal entry line (i, j, v); an entry line on the diagonal is
\* inserted once and not mirrored, and under 'general' and 'hermitian' no
\* mirrored entry is inserted: the COO matrix holds at (i, j) one triplet for
\* each line of nonzero value at (i, j), and one for each at (j, i) only off
\* the diagonal of a symmetric or skew-symmetric matrix.
C3_SkewSymmetric ==
  /\ (CoordinateParsed /\ Symmetry = SkewSymmetric) =>
       \A x \in 1..Len(entries) :
         LET e == entries[x] IN
         (e.i # e.j /\ InShape(e.i, e.j) /\ MatAt(mat, e.i - 1, e.j - 1) = e.v) =>
           MatAt(mat, e.j - 1, e.i - 1) = -e.v
  /\ (Format = FormatCoordinate /\ pc \in {"body", "done", "saved", "reparsed"}) =>
       \A i \in 1..MaxDim, j \in 1..MaxDim :
         Cardinality(CooAt(i - 1, j - 1)) =
           Cardinality(NonZeroAt(i, j))
           + (IF i # j /\ Symmetry \in {Symmetric, SkewSymmetric}
              THEN Cardinality(NonZeroAt(j, i)) ELSE 0)

\* the lines '2 1 1.5' and '1 1 1' of a skew-symmetric matrix
C3_Witness ==
  /\ CoordinateParsed /\ Symmetry = SkewSymmetric /\ Len(entries) = 2
  /\ entries[1] = [i |-> 2, j |-> 1, v |-> 3]
  /\ entries[2] = [i |-> 1, j |-> 1, v |-> 2]
  /\ MatAt(mat, 1, 0) = 3 /\ MatAt(mat, 0, 1) = -3 /\ MatAt(mat, 0, 0) = 2
  /\ Len(coo) = 3

(***************************************************************************)
(* Claims on the zeros of ParseCoordinate, checked under Spec              *)
(***************************************************************************)
\* the triplets ParseCoordinate inserts for the entry lines es of nonzero
\* value, in the order of the lines
RECURSIVE Contribution(_, _)
Contribution(es, sym) ==
  IF es = <<>> THEN <<>>
  ELSE LET e == Head(es)
           mir == Mirror(sym, e.i, e.j, e.v)
       IN (IF e.v = 0 THEN <<>>
           ELSE <<[i |-> e.i - 1, j |-> e.j - 1, v |-> e.v]>>
                \o [x \in 1..Len(mir) |->
                      [i |-> mir[x].i - 1, j |-> mir[x].j - 1, v |-> mir[x].v]])
          \o Contribution(Tail(es), sym)

\* the matrix stores an entry at zero-based (i, j)
Stored(A, i, j) == \E x \in 1..Len(A.rows[i + 1]) : A.rows[i + 1][x].j = j

\* C4: an entry line of value zero is dropped by ParseCoordinate: it is
\* neither inserted at (row, col) nor mirrored at (col, row) under any
\* symmetry.  The COO matrix is the one of the lines of nonzero value alone,
\* the count of stored entries of the matrix returned is the count these
\* lines give, and a position that only lines of value zero address is not
\* stored.
C4_ZeroSuppression ==
  (Format = FormatCoordinate /\ pc \in {"body", "done", "saved", "reparsed"}) =>
    /\ coo = Contribution(entries, Symmetry)
    /\ \A x \in 1..Len(coo) : coo[x].v # 0
    /\ Succeeded =>
         /\ CsrNNZ(mat) = CsrNNZ(ToCSR(Contribution(entries, Symmetry), n, m))
         /\ \A i \in 1..n, j \in 1..m :
              (NonZeroAt(i, j) = {}
               /\ (Symmetry \in {Symmetric, SkewSymmetric} => NonZeroAt(j, i) = {}))
              => ~Stored(mat, i - 1, j - 1)

\* the lines '2 1 0' and '1 1 1.5' of a symmetric matrix: one stored entry
C4_Witness ==
  /\ CoordinateParsed /\ Symmetry = Symmetric /\ n = 2 /\ m = 2
  /\ entries = <<[i |-> 2, j |-> 1, v |-> 0], [i |-> 1, j |-> 1, v |-> 3]>>
  /\ CsrNNZ(mat) = 1
  /\ ~Stored(mat, 1, 0) /\ ~Stored(mat, 0, 1)

(***************************************************************************)
(* Claims on ParseArrayFormat, checked under Spec                          *)
(***************************************************************************)
\* C5: an 'array real general' input with size line 'rows cols' followed by
\* exactly rows*cols value lines is parsed: Parse does not fail on a line that
\* is a value, does not panic before rows*cols values are read, and returns a
\* dense matrix with Dims() = (rows, cols) and rows*cols declared lines whose
\* element (k mod rows, k div rows) is the k-th value read, k from 0.
C5_ArrayColumnMajor ==
  (Format = FormatArray /\ Type = TypeReal /\ Symmetry = General
   /\ n >= 1 /\ m >= 1) =>
    /\ pc = "failed" => ~ParseFloatOk(TrimSpace(line))
    /\ pc = "panic" => Len(values) = n * m
    /\ (Succeeded /\ Len(values) = n * m) =>
         /\ err = "nil"
         /\ mat.kind = "dense"
         /\ MatDims(mat) = <<n, m>>
         /\ lines = n * m
         /\ \A k \in 0..(n * m - 1) : MatAt(mat, k % n, k \div n) = values[k + 1]

\* the values 1, 1.5, 1, 1 read into 2 x 2: 1.5 is the element (1, 0)
C5_Witness ==
  /\ pc = "done" /\ Format = FormatArray /\ n = 2 /\ m = 2
  /\ values = <<2, 3, 2, 2>>
  /\ MatAt(mat, 1, 0) = 3 /\ MatAt(mat, 0, 1) = 2

\* C6: when the stream of an array-format matrix ends after fewer than
\* rows*cols value lines were read, Parse fails with an error and returns no
\* matrix; it never succeeds with the missing elements left at a default.
C6_ShortfallFails ==
  (Format = FormatArray /\ Returned /\ n >= 1 /\ m >= 1 /\ Len(values) < n * m) =>
    /\ pc = "failed" /\ err # "nil"
    /\ mat = NoMat

(***************************************************************************)
(* Claims on SaveToMatrixMarket, checked under Spec                        *)
(***************************************************************************)
\* C7: for the CSR matrix A of a successful Parse of a coordinate input,
\* SaveToMatrixMarket and Parse of the written text give a matrix with the
\* Dims() of A, the count of stored entries of A, and the value of A at every
\* position where A is not zero.
C7_RoundTrip ==
  (pc = "reparsed" /\ mat.kind = "csr") =>
    /\ mat2.kind = "ok"
    /\ MatDims(mat2.mat) = MatDims(mat)
    /\ CsrNNZ(mat2.mat) = CsrNNZ(mat)
    /\ \A i \in 0..(n - 1), j \in 0..(m - 1) :
         MatAt(mat, i, j) # 0 => MatAt(mat2.mat, i, j) = MatAt(mat, i, j)

\* C8: for a CSR matrix SaveToMatrixMarket writes the header line
\* '%%MatrixMarket matrix coordinate real general', the line 'rows cols nnz'
\* and nnz lines 'row+1 col+1 value', one for each stored entry, by ascending
\* row and by ascending column in a row, whatever the order of insertion.
C8_SparseEncoding ==
  (pc \in {"saved", "reparsed"} /\ mat.kind = "csr") =>
    /\ Len(out) = 2 + CsrNNZ(mat)
    /\ out[1] = <<W("%%MatrixMarket"), SP, W("matrix"), SP, W("coordinate"), SP,
                  W("real"), SP, W("general")>>
    /\ out[2] = <<IntTok(n), SP, IntTok(m), SP, IntTok(CsrNNZ(mat))>>
    /\ \A x \in 3..Len(out) :
         /\ Len(out[x]) = 5
         /\ out[x][1].k = "i" /\ out[x][2] = SP /\ out[x][3].k = "i" /\ out[x][4] = SP
         /\ Stored(mat, out[x][1].n - 1, out[x][3].n - 1)
         /\ out[x][5] = FormatV(MatAt(mat, out[x][1].n - 1, out[x][3].n - 1))
    /\ \A x, y \in 3..Len(out) :
         x < y => \/ out[x][1].n < out[y][1].n
                  \/ out[x][1].n = out[y][1].n /\ out[x][3].n < out[y][3].n

(***************************************************************************)
(* Claims on the fields ParseHeader sets, checked under SpecHeader         *)
(***************************************************************************)
\* token x (from 1) of the first line, in lower case, is the word s
HeaderTokenIs(x, s) ==
  LET tokens == Split(TrimSpace(line))
  IN Len(tokens) >= x /\ ToLower(tokens[x]) = <<W(s)>>

\* C11: after a successful ParseHeader, for any letter case of the tokens,
\* Format, Type and Symmetry hold the constant named after the token:
\* 'array' FormatArray, 'coordinate' FormatCoordinate, 'real' TypeReal,
\* 'integer' TypeInteger, 'complex' TypeComplex, 'pattern' TypePattern,
\* 'general' General, 'symmetric' Symmetric, 'skew-symmetric' SkewSymmetric,
\* 'hermitian' Hermitian.
C11_FieldsHoldNamedConstants ==
  (pc = "comment" /\ err = "nil") =>
    /\ HeaderTokenIs(3, "array") => Format = FormatArray
    /\ HeaderTokenIs(3, "coordinate") => Format = FormatCoordinate
    /\ HeaderTokenIs(4, "real") => Type = TypeReal
    /\ HeaderTokenIs(4, "integer") => Type = TypeInteger
    /\ HeaderTokenIs(4, "complex") => Type = TypeComplex
    /\ HeaderTokenIs(4, "pattern") => Type = TypePattern
    /\ HeaderTokenIs(5, "general") => Symmetry = General
    /\ HeaderTokenIs(5, "symmetric") => Symmetry = Symmetric
    /\ HeaderTokenIs(5, "skew-symmetric") => Symmetry = SkewSymmetric
    /\ HeaderTokenIs(5, "hermitian") => Symmetry = Hermitian

\* The part of C11 that holds: the fields hold the token in lower case, and
\* every constant but TypeInteger and TypeComplex is the word it is named after.
C11_FieldsHoldTokens ==
  (pc = "comment" /\ err = "nil") =>
    /\ HeaderTokenIs(3, Format) /\ HeaderTokenIs(4, Type) /\ HeaderTokenIs(5, Symmetry)
    /\ HeaderTokenIs(4, "integer") => Type = TypeComplex
    /\ HeaderTokenIs(4, "complex") => Type = TypeInteger

(***************************************************************************)
(* The stages behind the header on streams with comments: ParseHeader on   *)
(* a well-formed first line, ParseComment, ParseDimensions                 *)
(***************************************************************************)
\* the most comment lines ahead of the size line
MaxComments == 2

StageHeaderLines ==
  {Join(<<W("%%MatrixMarket"), W("matrix"), W(f), W("real"), W("general")>>) :
     f \in {"coordinate", "array"}}

\* lines that ParseComment reads: '%' first, the empty line, a space first, a
\* tab first
RichCommentLines ==
  {<<W("%Hello")>>,
   <<W("%World!")>>,
   <<>>,
   <<SP, IntTok(2), SP, IntTok(2), SP, IntTok(2)>>,
   <<TAB>>}

\* lines that ParseComment leaves: size lines of three, two, one and four
\* tokens, with a count of 0, with 0 or a negative number of rows or columns,
\* with a token that is no integer, with a doubled space, with tabs, with a
\* space at the end
RichSizeLines ==
  {Join(<<IntTok(10), IntTok(10), IntTok(10)>>),
   Join(<<IntTok(5), IntTok(6)>>),
   <<IntTok(5)>>,
   Join(<<IntTok(2), IntTok(3), IntTok(4), IntTok(5)>>),
   Join(<<IntTok(2), IntTok(3), IntTok(0)>>),
   Join(<<IntTok(0), IntTok(3), IntTok(4)>>),
   Join(<<IntTok(2), IntTok(0), IntTok(4)>>),
   Join(<<IntTok(0), IntTok(0)>>),
   Join(<<IntTok(-1), IntTok(3), IntTok(4)>>),
   Join(<<IntTok(2), IntTok(-3), IntTok(4)>>),
   Join(<<IntTok(2), IntTok(3), IntTok(-4)>>),
   Join(<<IntTok(2), W("x"), IntTok(4)>>),
   Join(<<FltTok(3), IntTok(3), IntTok(4)>>),
   Join(<<IntTok(2), IntTok(3), W("x")>>),
   Join(<<IntTok(2), IntTok(3), IntTok(4), W("x")>>),
   <<IntTok(2), SP, SP, IntTok(3), SP, IntTok(4)>>,
   <<IntTok(2), TAB, IntTok(3), TAB, IntTok(4)>>,
   <<IntTok(2), SP, IntTok(3), SP, IntTok(4), SP>>}

\* a line behind the size line
RichTrailLines == {<<W("%Hello")>>, Join(<<IntTok(1), IntTok(1), FltTok(3)>>)}

OneOrNone(ls) == {<<>>} \cup {<<l>> : l \in ls}

\* behind the first line: comment lines, then possibly a size line, then
\* possibly one more line; the last line may lack its newline
RichStreams ==
  {st \in [ls : {c \o d \o t : c \in SeqsUpTo(RichCommentLines, MaxComments),
                             d \in OneOrNone(RichSizeLines),
                             t \in OneOrNone(RichTrailLines)},
           cut : BOOLEAN] :
     st.cut => st.ls # <<>> /\ st.ls[Len(st.ls)] # <<>>}

NextStages ==
  \/ ParseHeader(StageHeaderLines, RichStreams)
  \/ ParseComment
  \/ ParseDimensions(RichSizeLines)

SpecStages == Init /\ [][NextStages]_vars

(***************************************************************************)
(* Claims on ParseComment and ParseDimensions                              *)
(***************************************************************************)
\* the first byte of line l, newline included, is '%', newline, space or tab
StartsComment(l) ==
  IF l = <<>> THEN TRUE
  ELSE \/ l[1] \in {SP, TAB}
       \/ l[1].k = "w" /\ l[1].s \in PercentWords

\* the length of the maximal run of comment lines at the head of ls
MaximalRun(ls) ==
  CHOOSE q \in 0..Len(ls) :
    /\ \A x \in 1..q : StartsComment(ls[x])
    /\ q < Len(ls) => ~StartsComment(ls[q + 1])

\* the bytes of the first q lines of st, every line with its newline but a
\* last line of the stream that has none
RECURSIVE Verbatim(_, _, _)
Verbatim(st, x, q) ==
  IF x > q THEN <<>>
  ELSE st.ls[x] \o (IF x = Len(st.ls) /\ st.cut THEN <<>> ELSE <<NL>>)
       \o Verbatim(st, x + 1, q)

CommentReturned == pc \notin {"header", "comment"}

\* C12: ParseComment never returns an error, the end of the stream and the
\* empty stream included; it consumes exactly the maximal run of lines whose
\* first byte is '%', newline, space or tab, a last line without newline
\* included; the comment is the concatenation of these lines with their
\* newlines, empty when there is none; the first other line is left whole,
\* and is the line that ParseDimensions reads.
C12_CommentMaximalRun ==
  LET q == MaximalRun(buf.ls) IN
  /\ (pc = "dims") =>
       /\ err = "nil"
       /\ pos = q
       /\ comment = Verbatim(buf, 1, q)
  /\ (CommentReturned /\ pc # "dims") =>
       /\ comment = Verbatim(buf, 1, q)
       /\ q < Len(buf.ls) => (pos = q + 1 /\ line = buf.ls[q + 1])
       /\ q = Len(buf.ls) => (pos = q /\ line = <<>> /\ readErr = "EOF")

\* ParseComment has read a comment of one line and left the size line, which
\* ParseDimensions has parsed; the comment line behind the size line is unread
C12_Witness ==
  /\ pc = "body"
  /\ pos = 2 /\ Len(buf.ls) = 3
  /\ comment = <<TAB, NL>>
  /\ StartsComment(buf.ls[3])

\* ParseComment has read two comment lines up to the end of the stream, the
\* second one without newline
C12_AtEndOfStream ==
  /\ pc = "dims"
  /\ Len(buf.ls) = 2 /\ buf.cut /\ pos = 2
  /\ comment = buf.ls[1] \o <<NL>> \o buf.ls[2]

\* a well-formed size line of format f: integers with single spaces between
\* them, three for a coordinate matrix with rows, cols > 0 and a count >= 0,
\* two for an array with rows, cols > 0
IsInt(a) == a.k = "i"

WellFormedSizeLine(l, f) ==
  IF f = FormatCoordinate
  THEN /\ Len(l) = 5
       /\ IsInt(l[1]) /\ l[2] = SP /\ IsInt(l[3]) /\ l[4] = SP /\ IsInt(l[5])
       /\ l[1].n > 0 /\ l[3].n > 0 /\ l[5].n >= 0
  ELSE /\ Len(l) = 3
       /\ IsInt(l[1]) /\ l[2] = SP /\ IsInt(l[3])
       /\ l[1].n > 0 /\ l[3].n > 0

DimensionsReturned == pc \notin {"header", "comment", "dims"}

\* the dimension fields are the numbers of the well-formed size line l
FieldsOfSizeLine(l) ==
  /\ n = l[1].n /\ m = l[3].n
  /\ lines = IF Format = FormatCoordinate THEN l[5].n ELSE l[1].n * l[3].n

\* C13: a well-formed size line that the end of the stream ends, without a
\* newline, is parsed successfully; "%Hello\n%World!\n10 10 10" behind a
\* coordinate header gives the comment "%Hello\n%World!\n", the dimensions
\* (10, 10) and 10 declared lines.
C13_SizeLineAtEndOfStream ==
  /\ (DimensionsReturned /\ readErr = "EOF" /\ WellFormedSizeLine(line, Format)) =>
       (err = "nil" /\ FieldsOfSizeLine(line))
  /\ (/\ DimensionsReturned
      /\ Format = FormatCoordinate
      /\ buf = [ls |-> <<<<W("%Hello")>>, <<W("%World!")>>,
                        Join(<<IntTok(10), IntTok(10), IntTok(10)>>)>>,
                cut |-> TRUE]) =>
       /\ comment = <<W("%Hello"), NL, W("%World!"), NL>>
       /\ err = "nil" /\ n = 10 /\ m = 10 /\ lines = 10

\* the same size lines ended by a newline are parsed
C13_TerminatedSizeLine ==
  (DimensionsReturned /\ readErr = "nil" /\ WellFormedSizeLine(line, Format)) =>
    (err = "nil" /\ FieldsOfSizeLine(line))

\* the size line "10 10 10" was parsed behind the two comment lines
C13_TerminatedCase ==
  /\ pc = "body" /\ Format = FormatCoordinate
  /\ comment = <<W("%Hello"), NL, W("%World!"), NL>>
  /\ n = 10 /\ m = 10 /\ lines = 10

\* the tokens of the size line l: what lies between the single spaces of the
\* line without its outer white space.  Token x of a line whose tokens are
\* single atoms is the atom at 2x - 1.
TokenCount(l) ==
  LET t == TrimSpace(l) IN
  IF t # <<>> /\ \A x \in 1..Len(t) : (x % 2 = 0) <=> (t[x] = SP)
  THEN (Len(t) + 1) \div 2 ELSE 0

IntegerTokens(l, k) ==
  LET t == TrimSpace(l) IN
  /\ Len(t) >= 2 * k - 1
  /\ \A x \in 1..(2 * k - 1) : IF x % 2 = 0 THEN t[x] = SP ELSE IsInt(t[x])
  /\ Len(t) > 2 * k - 1 => t[2 * k] = SP

CoordinateDimensionsReturned == DimensionsReturned /\ Format = FormatCoordinate

\* C14: for the coordinate format ParseDimensions returns without error only
\* on a size line of exactly three integer tokens separated by single spaces:
\* fewer than three, more than three, or a token that is no integer is an error.
C14_ExactlyThreeTokens ==
  (CoordinateDimensionsReturned /\ err = "nil") =>
    (TokenCount(line) = 3 /\ IntegerTokens(line, 3))

\* C14 as the code has it: at least three tokens, the first three integers;
\* tokens behind the third are not looked at.
C14_AtLeastThreeTokens ==
  /\ (CoordinateDimensionsReturned /\ err = "nil") => IntegerTokens(line, 3)
  /\ (CoordinateDimensionsReturned /\ readErr = "nil" /\ IntegerTokens(line, 3)) =>
       (err = "nil" /\ n = line[1].n /\ m = line[3].n /\ lines = line[5].n)

\* a size line of four tokens, the fourth no integer, was accepted
C14_Witness ==
  /\ CoordinateDimensionsReturned /\ err = "nil"
  /\ Len(line) = 7 /\ line[7] = W("x")
  /\ lines = line[5].n

(***************************************************************************)
(* ParseDimensions on its own, as TestParseMatrixMarketDimensions calls    *)
(* it: on a Matrix whose Format is set and whose dimension fields hold 0   *)
(* or the values of an earlier Parse, and a reader at the size line        *)
(***************************************************************************)
PreviousDims == {<<0, 0, 0>>, <<7, 8, 9>>}

DimStreams ==
  {st \in [ls : OneOrNone(RichSizeLines), cut : BOOLEAN] : st.cut => st.ls # <<>>}

InitDims ==
  /\ pc = "dims"
  /\ rd = "eof"
  /\ buf \in DimStreams /\ pos = 0
  /\ line = <<>>
  /\ readErr = "nil"
  /\ err = "nil"
  /\ Format \in {FormatArray, FormatCoordinate}
  /\ Type = TypeReal /\ Symmetry = General
  /\ comment = <<>>
  /\ \E p \in PreviousDims : n = p[1] /\ m = p[2] /\ lines = p[3]
  /\ nnz = 0
  /\ mat = NoMat
  /\ entries = <<>> /\ coo = <<>> /\ values = <<>>
  /\ out = <<>> /\ mat2 = NoMat

NextDims == ParseDimensions(RichSizeLines)

SpecDims == InitDims /\ [][NextDims]_vars

\* the step in which ParseDimensions returns, for the array format
ArrayDimensionsStep == pc = "dims" /\ pc' # "dims" /\ Format = FormatArray

\* rows and cols are the first two tokens of l, declaredLines their product
ArrayFieldsOf(l) ==
  n' = l[1].n /\ m' = l[3].n /\ lines' = l[1].n * l[3].n

\* C15: for the array format ParseDimensions accepts a size line of at least
\* two integer tokens, sets rows and cols from the first two and declaredLines
\* to rows * cols, whatever further tokens the line holds; a size line of one
\* token is an error and leaves rows, cols and declaredLines as they were.
C15_ArrayDimensions ==
  [][ArrayDimensionsStep =>
       /\ IntegerTokens(line', 2) => (err' = "nil" /\ ArrayFieldsOf(line'))
       /\ TokenCount(line') = 1 =>
            (err' # "nil" /\ n' = n /\ m' = m /\ lines' = lines)]_vars

\* the same for size lines that a newline ends
C15_TerminatedArrayDimensions ==
  [][ArrayDimensionsStep =>
       /\ (readErr' = "nil" /\ IntegerTokens(line', 2)) =>
            (err' = "nil" /\ ArrayFieldsOf(line'))
       /\ err' = "nil" => IntegerTokens(line', 2)
       /\ TokenCount(line') = 1 =>
            (err' # "nil" /\ n' = n /\ m' = m /\ lines' = lines)]_vars

\* an array size line of four tokens was accepted over earlier values:
\* declaredLines is the product and not the third token
C15_TerminatedCase ==
  /\ pc = "body" /\ Format = FormatArray
  /\ TokenCount(line) = 4
  /\ n = 2 /\ m = 3 /\ lines = 6

\* a size line of one token was refused and the earlier values are kept
C15_OneTokenCase ==
  /\ pc = "failed" /\ Format = FormatArray
  /\ TokenCount(line) = 1
  /\ <<n, m, lines>> = <<7, 8, 9>>

\* the stream behind the first line holds comment lines only
NoDimensionLine == MaximalRun(buf.ls) = Len(buf.ls)

\* C16: when the stream ends behind a valid header and comment lines, if any,
\* with no size line, Parse fails in ParseDimensions: it returns an error and
\* no matrix, and never succeeds with dimensions of zero.
C16_NoDimensionLineFails ==
  (DimensionsReturned /\ NoDimensionLine) =>
    /\ pc = "failed"
    /\ err # "nil"
    /\ mat = NoMat
    /\ n = 0 /\ m = 0 /\ lines = 0

\* Parse has failed in ParseDimensions at the end of the stream, behind two
\* comment lines
C16_Witness ==
  /\ pc = "failed" /\ err = "EOF"
  /\ NoDimensionLine /\ Len(buf.ls) = 2 /\ pos = 2
  /\ comment # <<>>

\* C17: whenever ParseDimensions has returned without error, rows > 0,
\* cols > 0 and declaredLines >= 0: a size line with a zero or negative number
\* of rows or columns, or a negative count, does not pass ParseDimensions.
C17_PositiveDimensions ==
  (DimensionsReturned /\ err = "nil") => (n > 0 /\ m > 0 /\ lines >= 0)

(***************************************************************************)
(* The full run on inputs whose header declares another type than 'real'   *)
(***************************************************************************)
TypedHeaderLines ==
  {Join(<<W("%%MatrixMarket"), W("matrix"), W(f), W(t), W("general")>>) :
     f \in {"coordinate", "array"}, t \in {"integer", "complex", "pattern"}}

NextTypes ==
  \/ ParseHeader(TypedHeaderLines, CoreStreams)
  \/ ParseComment
  \/ ParseDimensions(CoreSizeLines)
  \/ CoordinateEmpty
  \/ CoordinateLine(EntryLines)
  \/ CoordinateEnd
  \/ ArrayEmpty
  \/ ArrayLine(ValueLines)
  \/ ArrayEnd
  \/ Save
  \/ Reparse

SpecTypes == Init /\ [][NextTypes]_vars

(***************************************************************************)
(* Claims on the element type, checked under SpecTypes                     *)
(***************************************************************************)
HeaderReturned == pc # "header"

\* no value of an array is missing
AllValuesRead == Format = FormatArray => Len(values) = n * m

\* C18: for a header that declares 'integer', 'complex' or 'pattern'
\* ParseHeader succeeds, and ParseMatrix, hence Parse, returns an error and no
\* matrix, also when every body line is a well-formed triplet or value line.
C18_NonRealRejected ==
  /\ (HeaderReturned /\ Len(line) > 0 /\ pc = "comment") =>
       (err = "nil" /\ Type \in {TypeInteger, TypeComplex, TypePattern})
  /\ (Returned /\ Type \in {TypeInteger, TypeComplex, TypePattern} /\ AllValuesRead) =>
       (~Succeeded /\ err # "nil" /\ mat = NoMat)

(***************************************************************************)
(* Claims on duplicate coordinates, checked under Spec                     *)
(***************************************************************************)
\* what entry line e adds at one-based (i, j): its value when it addresses
\* (i, j), and the value of its mirror image when it addresses (j, i) off the
\* diagonal of a symmetric or skew-symmetric matrix
AddsAt(e, i, j) ==
  (IF e.i = i /\ e.j = j THEN e.v ELSE 0)
  + (IF e.i = j /\ e.j = i /\ i # j
     THEN (IF Symmetry = Symmetric THEN e.v
           ELSE IF Symmetry = SkewSymmetric THEN -e.v ELSE 0)
     ELSE 0)

\* the sum over the entry lines with index in S, taken in no order
RECURSIVE SumAt(_, _, _)
SumAt(S, i, j) ==
  IF S = {} THEN 0
  ELSE LET x == CHOOSE y \in S : TRUE
       IN AddsAt(entries[x], i, j) + SumAt(S \ {x}, i, j)

\* C19: duplicate coordinates accumulate: when several entry lines, or an
\* entry line and the mirror image of another under 'symmetric' or
\* 'skew-symmetric', address one position, the matrix holds there the sum of
\* all their values, not the value of the last line, in whatever order the
\* lines stand.
C19_DuplicatesAdd ==
  CoordinateParsed =>
    \A i \in 1..n, j \in 1..m :
      MatAt(mat, i - 1, j - 1) = SumAt(1..Len(entries), i, j)

\* two lines of different value at (1, 1): the matrix holds 2.5, neither 1.5
\* nor 1
C19_Witness ==
  /\ CoordinateParsed
  /\ Len(entries) = 2 /\ Addresses(1, 1) = {1, 2}
  /\ entries[1].v = 3 /\ entries[2].v = 2
  /\ MatAt(mat, 0, 0) = 5

\* a line at (1, 2) and the mirror image of a line at (2, 1) of a symmetric
\* matrix: both positions hold 3
C19_MirrorCase ==
  /\ CoordinateParsed /\ Symmetry = Symmetric
  /\ Len(entries) = 2 /\ Addresses(1, 2) = {1} /\ Addresses(2, 1) = {2}
  /\ MatAt(mat, 0, 1) = 6 /\ MatAt(mat, 1, 0) = 6

(***************************************************************************)
(* Claims on Matrix.NNZ, checked under Spec                                *)
(***************************************************************************)
\* Matrix.NNZ, lines 552-554: the field nnz
NNZ == nnz

\* C20: after a successful Parse, Matrix.NNZ() is the number of non-zeroes of
\* the matrix returned: the count of stored entries of a CSR matrix, and
\* rows * cols for a dense matrix.
C20_NNZCounts ==
  Succeeded =>
    /\ mat.kind = "csr" => NNZ = CsrNNZ(mat)
    /\ mat.kind = "dense" => NNZ = n * m

(***************************************************************************)
(* Claims on SaveToMatrixMarket, checked under Spec                        *)
(***************************************************************************)
SaveReturned == pc \in {"saved", "reparsed"}

CoordinateRealGeneral ==
  Join(<<W("%%MatrixMarket"), W("matrix"), W("coordinate"), W("real"), W("general")>>)

\* C21: whatever SaveToMatrixMarket writes starts with the header
\* '%%MatrixMarket matrix coordinate real general'; a dense matrix is refused
\* and nothing is written for it.
C21_OnlyCoordinateOutput ==
  SaveReturned =>
    /\ out # <<>> => out[1] = CoordinateRealGeneral
    /\ mat.kind = "dense" => out = <<>>

\* what holds of the output for a CSR matrix
C21_SparseHeader ==
  (SaveReturned /\ mat.kind = "csr") => (out # <<>> /\ out[1] = CoordinateRealGeneral)

(***************************************************************************)
(* Claims on the stages of Parse, checked under Spec                       *)
(***************************************************************************)
\* the steps of Parse from stage to stage, and how it ends
StageOrder ==
  {<<"header", "comment">>, <<"comment", "dims">>, <<"dims", "body">>,
   <<"body", "done">>,
   <<"header", "failed">>, <<"dims", "failed">>, <<"body", "failed">>,
   <<"body", "panic">>,
   <<"done", "saved">>, <<"saved", "reparsed">>}

\* l is an entry line: three fields with white space between and around
\* them, two integers and a number
IsTripletLine(l) ==
  LET f == Fields(TrimSpace(l)) IN
  /\ Len(f) = 3
  /\ \A x \in 1..3 : Len(f[x]) = 1
  /\ IsInt(f[1][1]) /\ IsInt(f[2][1]) /\ f[3][1].k \in {"i", "f"}

\* l is a value line: one number with white space around it
IsValueLine(l) ==
  LET t == TrimSpace(l) IN Len(t) = 1 /\ t[1].k \in {"i", "f"}

\* the line read last is neither a size line nor a body line of the format
MalformedLine ==
  IF Format = FormatCoordinate
  THEN ~IntegerTokens(line, 3) /\ ~IsTripletLine(line)
  ELSE ~IntegerTokens(line, 2) /\ ~IsValueLine(line)

\* Parse has returned an error and no matrix
Aborted == pc = "failed" /\ err # "nil" /\ mat = NoMat

\* C22 in a state: behind a malformed header line ParseHeader has failed;
\* behind a malformed or missing size line, or a malformed body line, Parse
\* is in no later stage and has returned no matrix; a failure is an error and
\* a nil matrix, the matrix of a nil error is not nil.
StagesAbort ==
  /\ (pc # "header" /\ ~WellFormedHeader(line) /\ Format = "") => Aborted
  /\ (pc \in {"body", "done", "saved", "reparsed", "panic"}) => ~MalformedLine
  /\ pc = "failed" => Aborted
  /\ err # "nil" => pc = "failed"
  /\ Succeeded => (err = "nil" /\ mat # NoMat)
  /\ (pc \in {"header", "comment", "dims", "body"}) => mat = NoMat

\* C22 in a step: the stages run in the order header, comments, dimensions,
\* body, the cursor only moves forward, no stage runs behind a failure
StagesInOrder ==
  /\ pos' >= pos
  /\ rd = "eof" => rd' = "eof"
  /\ pc' # pc => <<pc, pc'>> \in StageOrder
  /\ pc = "failed" => UNCHANGED vars

\* C22: Parse runs header, comments, dimensions, body in this order over one
\* cursor that only moves forward; a malformed header, a malformed or missing
\* size line, a malformed triplet or value line anywhere in the body aborts
\* it: no later stage runs, Parse returns a nil matrix and an error, no error
\* of a stage is swallowed, no partly filled matrix is returned; and with a
\* nil error the matrix returned is not nil.
C22_StagesAbort == []StagesAbort /\ [][StagesInOrder]_vars

\* the same for coordinate inputs, whose scanner error is looked at
C22_CoordinateStagesAbort ==
  [](Format # FormatArray => StagesAbort) /\ [][StagesInOrder]_vars

\* Parse has failed on an entry line behind the size line
C22_CoordinateCase ==
  /\ Aborted /\ Format = FormatCoordinate
  /\ pos = 1 /\ n = 2 /\ m = 2 /\ MalformedLine

(***************************************************************************)
(* Claims on the lines of the coordinate body, checked under Spec          *)
(***************************************************************************)
\* ParseCoordinate has read l: the size line, which the buffer holds, has
\* passed ParseDimensions, the shape is not empty, and l is what was read last
BodyLineRead(l) ==
  /\ Format = FormatCoordinate
  /\ pc \in {"body", "done", "saved", "reparsed", "failed", "panic"}
  /\ pos = 1 /\ ~buf.cut /\ IntegerTokens(buf.ls[1], 3)
  /\ n # 0 /\ m # 0
  /\ line = l /\ l # buf.ls[1]

IsBlankLine(l) == TrimSpace(l) = <<>>

\* C23: an empty line or a line of white space anywhere in the coordinate
\* body is skipped, with no error and no entry; every other body line splits
\* into exactly three fields, integer, integer and number, or Parse fails.
C23_BlankLinesSkipped ==
  /\ (BodyLineRead(line) /\ IsBlankLine(line)) => (pc # "failed" /\ err = "nil")
  /\ (BodyLineRead(line) /\ ~IsBlankLine(line) /\ ~IsTripletLine(line)) =>
       (pc = "failed" /\ err # "nil")

\* what holds: every body line that is no triplet, a blank one included, makes
\* Parse fail
C23_EveryLineIsATriplet ==
  (BodyLineRead(line) /\ ~IsTripletLine(line)) => Aborted

\* Parse has failed on an empty body line
C23_BlankLineCase ==
  /\ BodyLineRead(<<>>) /\ Aborted

(***************************************************************************)
(* Claims on the dense output, checked under Spec                          *)
(***************************************************************************)
ArrayRealGeneral ==
  Join(<<W("%%MatrixMarket"), W("matrix"), W("array"), W("real"), W("general")>>)

\* the written line l holds one number and nothing else, of value v (in halves)
HoldsValue(l, v) ==
  /\ Len(l) = 1
  /\ l[1].k \in {"i", "f"}
  /\ (IF l[1].k = "i" THEN 2 * l[1].n ELSE l[1].n) = v

C25_InBounds ==
  /\ pc # "panic"
  /\ \A x \in 1..Len(coo) :
       0 <= coo[x].i /\ coo[x].i < n /\ 0 <= coo[x].j /\ coo[x].j < m
  /\ Len(values) <= n * m
  /\ (/\ Format = FormatCoordinate /\ Returned /\ IsTripletLine(line)
      /\ LET f == Fields(TrimSpace(line)) IN
           /\ f[3][1].n # 0
           /\ f[1][1].n \notin 1..n \/ f[2][1].n \notin 1..m) =>
       (pc = "failed" /\ err # "nil")

\* what holds: nothing is stored outside the shape, as the insertion or the
\* write that would do so panics
C25_NothingStoredOutside ==
  /\ \A x \in 1..Len(coo) :
       0 <= coo[x].i /\ coo[x].i < n /\ 0 <= coo[x].j /\ coo[x].j < m
  /\ Len(values) <= n * m

\* the array parser has panicked on a value line behind the last element
C25_ArrayPanicCase ==
  /\ pc = "panic" /\ Format = FormatArray
  /\ Len(values) = n * m /\ IsValueLine(line)

\* the coordinate parser has panicked on a line with an index outside the shape
C25_CoordinatePanicCase ==
  /\ pc = "panic" /\ Format = FormatCoordinate
  /\ IsTripletLine(line)

=============================================================================
